---- MODULE Spec2Model ----
(***************************************************************************)
(* Medicine inventory service: the in-memory store of src/database.py, the *)
(* pydantic models of src/models.py and the HTTP handlers of src/main.py.  *)
(*                                                                         *)
(* A Python str is a sequence of one-character strings; an Optional value  *)
(* is None (the empty set) or Some(v) (the singleton {v}); a date and a    *)
(* datetime are both readings of the system clock, counted in days.        *)
(***************************************************************************)
EXTENDS Integers, Sequences, FiniteSets, TLC

VARIABLES categories_db, medicines_db, clock, uuids, seedings, resp, tasks

vars == <<categories_db, medicines_db, clock, uuids, seedings, resp, tasks>>

----------------------------------------------------------------------------
(* Bounds of the model *)

\* the system clock runs from day 0 to day MaxDay
MaxDay == 1
\* at most MaxUuid identifiers are drawn by create_medicine / create_category
MaxUuid == 2
\* get_database seeds the categories at most MaxSeedings times
MaxSeedings == 2
\* at most MaxTasks request coroutines are suspended on the event loop
MaxTasks == 2

----------------------------------------------------------------------------
(* Python values *)

None == {}
Some(v) == {v}
Get(o) == CHOOSE v \in o : TRUE

UpperCase == <<"A","B","C","D","E","F","G","H","I","J","K","L","M",
               "N","O","P","Q","R","S","T","U","V","W","X","Y","Z">>
LowerCase == <<"a","b","c","d","e","f","g","h","i","j","k","l","m",
               "n","o","p","q","r","s","t","u","v","w","x","y","z">>

Chars == {" "} \cup {UpperCase[i] : i \in 1..Len(UpperCase)}
             \cup {LowerCase[i] : i \in 1..Len(LowerCase)}

IsUpper(c) == \E i \in 1..Len(UpperCase) : UpperCase[i] = c
IsLower(c) == \E i \in 1..Len(LowerCase) : LowerCase[i] = c
IsSpace(c) == c = " "

\* the tables of the characters in use
CasedTable == [c \in Chars |-> IsUpper(c) \/ IsLower(c)]
LowerTable ==
    [c \in Chars |->
        IF IsUpper(c)
        THEN LowerCase[CHOOSE i \in 1..Len(UpperCase) : UpperCase[i] = c]
        ELSE c]
UpperTable ==
    [c \in Chars |->
        IF IsLower(c)
        THEN UpperCase[CHOOSE i \in 1..Len(LowerCase) : LowerCase[i] = c]
        ELSE c]
\* code point order: " " < "A".."Z" < "a".."z"
OrdTable ==
    [c \in Chars |->
        IF IsSpace(c) THEN 0
        ELSE IF IsUpper(c) THEN CHOOSE i \in 1..Len(UpperCase) : UpperCase[i] = c
        ELSE Len(UpperCase) + (CHOOSE i \in 1..Len(LowerCase) : LowerCase[i] = c)]

IsCased(c) == CasedTable[c]
LowerChar(c) == LowerTable[c]
UpperChar(c) == UpperTable[c]
Ord(c) == OrdTable[c]

\* str.lower()
Lower(s) == [i \in 1..Len(s) |-> LowerChar(s[i])]

\* str.title(): a cased character is upper-cased after an uncased one (or
\* at the start) and lower-cased after a cased one
Title(s) ==
    [i \in 1..Len(s) |->
        IF i = 1 \/ ~IsCased(s[i-1]) THEN UpperChar(s[i]) ELSE LowerChar(s[i])]

\* str.strip()
Strip(s) ==
    IF \A i \in 1..Len(s) : IsSpace(s[i]) THEN <<>>
    ELSE LET first == CHOOSE i \in 1..Len(s) :
                          ~IsSpace(s[i]) /\ \A j \in 1..(i-1) : IsSpace(s[j])
             last  == CHOOSE i \in 1..Len(s) :
                          ~IsSpace(s[i]) /\ \A j \in (i+1)..Len(s) : IsSpace(s[j])
         IN  SubSeq(s, first, last)

\* sub in s
Contains(sub, s) ==
    \E i \in 0..(Len(s) - Len(sub)) : SubSeq(s, i + 1, i + Len(sub)) = sub

\* a < b for str: decided at the first place where they differ
StrLess(a, b) ==
    LET n == IF Len(a) < Len(b) THEN Len(a) ELSE Len(b)
        differ == {i \in 1..n : a[i] # b[i]}
    IN  IF differ = {}
        THEN Len(a) < Len(b)
        ELSE LET k == CHOOSE i \in differ : \A j \in differ : i <= j
             IN  Ord(a[k]) < Ord(b[k])

----------------------------------------------------------------------------
(* src/models.py *)

NameMaxLength == 200
CategoryMaxLength == 100
DosageMaxLength == 100
ManufacturerMaxLength == 200
DescriptionMaxLength == 500
CategoryNameMaxLength == 100
CategoryDescriptionMaxLength == 300

MedicineFields ==
    {"name", "category", "dosage", "manufacturer", "expiry_date",
     "stock_quantity", "price", "description"}

\* the fields declared with Field(...): a value is required
RequiredFields ==
    {"name", "category", "dosage", "manufacturer", "expiry_date",
     "stock_quantity"}

\* the Field(min_length=, max_length=, ge=) constraints, the same in
\* MedicineBase and MedicineUpdate
FieldConstraint(f, v) ==
    CASE f = "name"           -> Len(v) >= 1 /\ Len(v) <= NameMaxLength
      [] f = "category"       -> Len(v) >= 1 /\ Len(v) <= CategoryMaxLength
      [] f = "dosage"         -> Len(v) >= 1 /\ Len(v) <= DosageMaxLength
      [] f = "manufacturer"   -> Len(v) >= 1 /\ Len(v) <= ManufacturerMaxLength
      [] f = "expiry_date"    -> TRUE
      [] f = "stock_quantity" -> v >= 0
      [] f = "price"          -> v >= 0
      [] f = "description"    -> Len(v) <= DescriptionMaxLength

\* validate_text_fields, validate_category, validate_dosage: the check
TextValidator(f, v) ==
    IF f \in {"name", "manufacturer", "category", "dosage"}
    THEN Strip(v) # <<>>
    ELSE TRUE

\* validate_text_fields, validate_category, validate_dosage: the value returned
Normalize(f, v) ==
    CASE f \in {"name", "manufacturer"} -> Title(Strip(v))
      [] f = "category"                 -> Lower(Strip(v))
      [] f = "dosage"                   -> Strip(v)
      [] OTHER                          -> v

\* MedicineBase.validate_expiry_date
validate_expiry_date(v, today) == v > today

\* MedicineBase (MedicineCreate, Medicine): does a field set p validate
MedicineBaseValid(p, today) ==
    /\ RequiredFields \subseteq DOMAIN p
    /\ \A f \in DOMAIN p \cap MedicineFields :
          IF p[f] = None
          THEN f \notin RequiredFields
          ELSE /\ FieldConstraint(f, Get(p[f]))
               /\ TextValidator(f, Get(p[f]))
               /\ (f = "expiry_date" => validate_expiry_date(Get(p[f]), today))

\* MedicineCreate.model_dump(): every field, the optional ones None by default
MedicineCreateDump(p) ==
    [f \in MedicineFields |->
        IF f \in DOMAIN p /\ p[f] # None
        THEN Some(Normalize(f, Get(p[f])))
        ELSE None]

\* MedicineUpdate: every field Optional; None passes every validator
MedicineUpdateValid(p) ==
    \A f \in DOMAIN p :
        p[f] # None =>
            FieldConstraint(f, Get(p[f])) /\ TextValidator(f, Get(p[f]))

\* MedicineUpdate.model_dump(exclude_unset=True): the fields the request set
MedicineUpdateDump(p) ==
    [f \in DOMAIN p |->
        IF p[f] = None THEN None ELSE Some(Normalize(f, Get(p[f])))]

\* Medicine(**data): the object built from a stored dict (validators run again)
Medicine(data) ==
    [f \in DOMAIN data |->
        IF f \in MedicineFields /\ data[f] # None
        THEN Some(Normalize(f, Get(data[f])))
        ELSE data[f]]

CategoryFields == {"name", "description"}

\* CategoryBase (CategoryCreate, Category)
CategoryBaseValid(p) ==
    /\ "name" \in DOMAIN p
    /\ p["name"] # None
    /\ Len(Get(p["name"])) >= 1
    /\ Len(Get(p["name"])) <= CategoryNameMaxLength
    /\ Strip(Get(p["name"])) # <<>>
    /\ ("description" \in DOMAIN p /\ p["description"] # None
          => Len(Get(p["description"])) <= CategoryDescriptionMaxLength)

\* CategoryCreate.model_dump(); validate_name lower-cases the stripped name
CategoryCreateDump(p) ==
    [f \in CategoryFields |->
        IF f \in DOMAIN p /\ p[f] # None
        THEN Some(IF f = "name" THEN Lower(Strip(Get(p[f]))) ELSE Get(p[f]))
        ELSE None]

----------------------------------------------------------------------------
(* src/database.py *)

\* date.today() and datetime.now() read the system clock
Today == clock
Now == clock

\* the five seed categories (each description is cut to its first letter)
sample_categories ==
    << [name |-> <<"a","n","t","i","b","i","o","t","i","c","s">>,
        description |-> <<"A">>],
       [name |-> <<"a","n","t","i","p","y","r","e","t","i","c","s">>,
        description |-> <<"r">>],
       [name |-> <<"p","a","i","n","k","i","l","l","e","r","s">>,
        description |-> <<"P">>],
       [name |-> <<"v","i","t","a","m","i","n","s">>,
        description |-> <<"V">>],
       [name |-> <<"a","n","t","a","c","i","d","s">>,
        description |-> <<"S">>] >>

\* the uuid of the i-th sample category of the n-th seeding
SeedId(n, i) == <<n, i>>
\* the n-th uuid drawn by create_medicine / create_category
Uuid(n) == <<0, n>>

\* uuids are drawn in increasing order: the order of insertion into a dict
IdBefore(a, b) == a[1] < b[1] \/ (a[1] = b[1] /\ a[2] < b[2])

\* get_database: an empty categories_db is filled with the sample categories
NeedsSeed(cats) == DOMAIN cats = {}

get_database(cats, n, now) ==
    IF NeedsSeed(cats)
    THEN [id \in {SeedId(n + 1, i) : i \in 1..Len(sample_categories)} |->
            [f \in {"name", "description", "_id", "created_at", "updated_at"} |->
                CASE f = "name" -> Some(sample_categories[id[2]].name)
                  [] f = "description" -> Some(sample_categories[id[2]].description)
                  [] f = "_id" -> id
                  [] OTHER -> now]]
    ELSE cats

\* the number of seedings after get_database
Seeded(cats, n) == IF NeedsSeed(cats) THEN n + 1 ELSE n

\* d with one more key
Put(d, k, v) == [x \in DOMAIN d \cup {k} |-> IF x = k THEN v ELSE d[x]]
\* del d[k]
Del(d, k) == [x \in DOMAIN d \ {k} |-> d[x]]
\* dict.update
Merge(d, u) == [x \in DOMAIN d \cup DOMAIN u |-> IF x \in DOMAIN u THEN u[x] ELSE d[x]]

\* create_medicine: the dict stored under medicine_id
create_medicine(dump, medicine_id, created, updated) ==
    Merge(dump, [f \in {"_id", "created_at", "updated_at"} |->
                    CASE f = "_id" -> medicine_id
                      [] f = "created_at" -> created
                      [] f = "updated_at" -> updated])

\* an update that would stamp the record anew, created_at included
update_medicine_restamps(current, update_data, now) ==
    Put(Put(Merge(current, update_data), "updated_at", now), "created_at", now)

\* update_medicine: current_data after update(update_data) and the new updated_at
update_medicine(current, update_data, now) ==
    Put(Merge(current, update_data), "updated_at", now)

\* create_category: some existing category has the new name, ignoring case
CategoryExists(cats, name) ==
    \E id \in DOMAIN cats : Lower(Get(cats[id]["name"])) = Lower(name)

\* create_category: the dict stored under category_id
create_category(dump, category_id, created, updated) ==
    Merge(dump, [f \in {"_id", "created_at", "updated_at"} |->
                    CASE f = "_id" -> category_id
                      [] f = "created_at" -> created
                      [] f = "updated_at" -> updated])

\* delete_category: med.get("category", "").lower() raises on a None category
CategoryUnreadable(meds) ==
    \E id \in DOMAIN meds : meds[id]["category"] = None

\* delete_category: medicines_using_category
medicines_using_category(meds, category_name) ==
    {id \in DOMAIN meds :
        /\ meds[id]["category"] # None
        /\ Lower(Get(meds[id]["category"])) = Lower(category_name)}

\* get_medicines: "if category" and "if search" skip None and the empty str
Truthy(o) == o # None /\ Get(o) # <<>>

\* get_medicines: the category filter lets the record through
CategoryPass(med, category) ==
    Truthy(category) => Lower(Get(med["category"])) = Lower(Get(category))

\* get_medicines: the search filter lets the record through
SearchPass(med, search) ==
    Truthy(search) =>
        \/ Contains(Lower(Get(search)), Lower(Get(med["name"])))
        \/ Contains(Lower(Get(search)), Lower(Get(med["manufacturer"])))

\* get_medicines: the expired filter lets the record through; a record with
\* no expiry_date is let through
ExpiredPass(med, expired, today) ==
    (expired # None /\ med["expiry_date"] # None) =>
        Get(expired) = (Get(med["expiry_date"]) <= today)

\* get_medicines: the filter loop raises AttributeError on None.lower()
FilterRaises(meds, category, search) ==
    \E id \in DOMAIN meds :
        \/ Truthy(category) /\ meds[id]["category"] = None
        \/ /\ Truthy(search)
           /\ (meds[id]["category"] = None \/ CategoryPass(meds[id], category))
           /\ (meds[id]["name"] = None \/ meds[id]["manufacturer"] = None)

\* get_medicines: filtered_medicines, as the set of their ids
filtered_medicines(meds, category, search, expired, today) ==
    {id \in DOMAIN meds :
        /\ CategoryPass(meds[id], category)
        /\ SearchPass(meds[id], search)
        /\ ExpiredPass(meds[id], expired, today)}

\* list.sort(key=name) raises TypeError when None is compared
SortRaises(meds, ids) ==
    Cardinality(ids) >= 2 /\ \E id \in ids : meds[id]["name"] = None

\* list.sort is stable: equal names keep the order of insertion
SortsBefore(meds, a, b) ==
    \/ StrLess(Get(meds[a]["name"]), Get(meds[b]["name"]))
    \/ Get(meds[a]["name"]) = Get(meds[b]["name"]) /\ IdBefore(a, b)

RECURSIVE SortByName(_, _)
SortByName(meds, ids) ==
    IF ids = {} THEN <<>>
    ELSE IF Cardinality(ids) = 1 THEN <<CHOOSE id \in ids : TRUE>>
    ELSE LET first == CHOOSE a \in ids :
                          \A b \in ids \ {a} : SortsBefore(meds, a, b)
         IN  <<first>> \o SortByName(meds, ids \ {first})

\* filtered_medicines[skip:skip + limit], for skip >= 0 and limit >= 1
Slice(seq, skip, limit) ==
    SubSeq(seq, skip + 1,
           IF skip + limit < Len(seq) THEN skip + limit ELSE Len(seq))

\* get_medicines: [raised, items]
get_medicines(meds, skip, limit, category, search, expired, today) ==
    IF FilterRaises(meds, category, search)
    THEN [raised |-> "AttributeError", items |-> <<>>]
    ELSE LET ids == filtered_medicines(meds, category, search, expired, today)
         IN  IF SortRaises(meds, ids)
             THEN [raised |-> "TypeError", items |-> <<>>]
             ELSE LET paginated == Slice(SortByName(meds, ids), skip, limit)
                  IN  IF \E i \in 1..Len(paginated) :
                            ~MedicineBaseValid(meds[paginated[i]], today)
                      THEN [raised |-> "ValidationError", items |-> <<>>]
                      ELSE [raised |-> "no",
                            items |-> [i \in 1..Len(paginated) |->
                                          Medicine(meds[paginated[i]])]]

\* get_categories: sorted by name (names of stored categories are never None)
RECURSIVE SortCategories(_, _)
SortCategories(cats, ids) ==
    IF ids = {} THEN <<>>
    ELSE LET first == CHOOSE a \in ids : \A b \in ids \ {a} :
                          \/ StrLess(Get(cats[a]["name"]), Get(cats[b]["name"]))
                          \/ /\ Get(cats[a]["name"]) = Get(cats[b]["name"])
                             /\ IdBefore(a, b)
         IN  <<first>> \o SortCategories(cats, ids \ {first})

----------------------------------------------------------------------------
(* src/main.py *)

HTTP_201_CREATED == 201
HTTP_204_NO_CONTENT == 204
HTTP_400_BAD_REQUEST == 400
HTTP_404_NOT_FOUND == 404
HTTP_500_INTERNAL_SERVER_ERROR == 500

\* the response of a handler: op names the handler, outcome what the store
\* returned or raised, count the number quoted in the detail message, body
\* the records returned
Response(op, status, outcome, count, body) ==
    [op |-> op, status |-> status, outcome |-> outcome, count |-> count,
     body |-> body]

\* a request body or query FastAPI cannot validate never reaches the handler
Unprocessable(op) == Response(op, 422, "RequestValidationError", 0, <<>>)

\* every store function begins with get_database; the seedings are bounded
CanSeed == NeedsSeed(categories_db) => seedings < MaxSeedings

\* the store's categories and count of seedings after get_database
SeedStep ==
    /\ categories_db' = get_database(categories_db, seedings, Now)
    /\ seedings' = Seeded(categories_db, seedings)

\* POST /api/medicines; the clock may advance by d between the two
\* datetime.now() of create_medicine
create_new_medicine(p, d) ==
    IF ~MedicineBaseValid(p, Today)
    THEN /\ resp' = Unprocessable("create_new_medicine")
         /\ UNCHANGED <<categories_db, medicines_db, clock, uuids, seedings>>
    ELSE IF Get(p["expiry_date"]) <= Today
    THEN /\ resp' = Response("create_new_medicine", HTTP_400_BAD_REQUEST,
                             "ExpiryNotFuture", 0, <<>>)
         /\ UNCHANGED <<categories_db, medicines_db, clock, uuids, seedings>>
    ELSE /\ CanSeed
         /\ uuids < MaxUuid
         /\ clock + d <= MaxDay
         /\ SeedStep
         /\ LET medicine_id == Uuid(uuids + 1)
                medicine_dict == create_medicine(MedicineCreateDump(p),
                                     medicine_id, Now, Now + d)
            IN  /\ medicines_db' = Put(medicines_db, medicine_id, medicine_dict)
                /\ resp' = Response("create_new_medicine", HTTP_201_CREATED,
                                    "ok", 0, <<Medicine(medicine_dict)>>)
         /\ uuids' = uuids + 1
         /\ clock' = clock + d

\* GET /api/medicines
get_all_medicines(skip, limit, category, search, expired) ==
    IF skip < 0 \/ limit < 1 \/ limit > 1000
    THEN /\ resp' = Unprocessable("get_all_medicines")
         /\ UNCHANGED <<categories_db, medicines_db, clock, uuids, seedings>>
    ELSE /\ CanSeed
         /\ SeedStep
         /\ LET r == get_medicines(medicines_db, skip, limit, category,
                                   search, expired, Today)
            IN  resp' = IF r.raised # "no"
                        THEN Response("get_all_medicines",
                                 HTTP_500_INTERNAL_SERVER_ERROR, r.raised, 0, <<>>)
                        ELSE Response("get_all_medicines", 200, "ok", 0, r.items)
         /\ UNCHANGED <<medicines_db, clock, uuids>>

\* GET /api/medicines/{medicine_id}
get_medicine(medicine_id) ==
    /\ CanSeed
    /\ SeedStep
    /\ resp' =
         IF medicine_id \notin DOMAIN medicines_db
         THEN Response("get_medicine", HTTP_404_NOT_FOUND, "None", 0, <<>>)
         ELSE IF ~MedicineBaseValid(medicines_db[medicine_id], Today)
         THEN Response("get_medicine", HTTP_500_INTERNAL_SERVER_ERROR,
                       "ValidationError", 0, <<>>)
         ELSE Response("get_medicine", 200, "ok", 0,
                       <<Medicine(medicines_db[medicine_id])>>)
    /\ UNCHANGED <<medicines_db, clock, uuids>>

\* PUT /api/medicines/{medicine_id}
update_existing_medicine(medicine_id, p) ==
    IF ~MedicineUpdateValid(p)
    THEN /\ resp' = Unprocessable("update_existing_medicine")
         /\ UNCHANGED <<categories_db, medicines_db, clock, uuids, seedings>>
    ELSE IF /\ "expiry_date" \in DOMAIN p
            /\ p["expiry_date"] # None
            /\ Get(p["expiry_date"]) <= Today
    THEN /\ resp' = Response("update_existing_medicine", HTTP_400_BAD_REQUEST,
                             "ExpiryNotFuture", 0, <<>>)
         /\ UNCHANGED <<categories_db, medicines_db, clock, uuids, seedings>>
    ELSE /\ CanSeed
         /\ SeedStep
         /\ UNCHANGED <<clock, uuids>>
         /\ IF medicine_id \notin DOMAIN medicines_db
            THEN /\ resp' = Response("update_existing_medicine",
                                HTTP_404_NOT_FOUND, "None", 0, <<>>)
                 /\ UNCHANGED medicines_db
            ELSE LET update_data == MedicineUpdateDump(p)
                     current_data ==
                         IF DOMAIN update_data = {}
                         THEN medicines_db[medicine_id]
                         ELSE update_medicine(medicines_db[medicine_id],
                                              update_data, Now)
                 IN  /\ medicines_db' =
                           [medicines_db EXCEPT ![medicine_id] = current_data]
                     /\ resp' =
                           IF MedicineBaseValid(current_data, Today)
                           THEN Response("update_existing_medicine", 200, "ok",
                                         0, <<Medicine(current_data)>>)
                           ELSE Response("update_existing_medicine",
                                    HTTP_500_INTERNAL_SERVER_ERROR,
                                    "ValidationError", 0, <<>>)

\* DELETE /api/medicines/{medicine_id}
delete_existing_medicine(medicine_id) ==
    /\ CanSeed
    /\ SeedStep
    /\ UNCHANGED <<clock, uuids>>
    /\ IF medicine_id \in DOMAIN medicines_db
       THEN /\ medicines_db' = Del(medicines_db, medicine_id)
            /\ resp' = Response("delete_existing_medicine",
                                HTTP_204_NO_CONTENT, "True", 0, <<>>)
       ELSE /\ UNCHANGED medicines_db
            /\ resp' = Response("delete_existing_medicine",
                                HTTP_404_NOT_FOUND, "False", 0, <<>>)

\* Category(**data): the object built from a stored dict
Category(data) == data

\* POST /api/categories; the clock may advance by d between the two
\* datetime.now() of create_category
create_new_category(p, d) ==
    IF ~CategoryBaseValid(p)
    THEN /\ resp' = Unprocessable("create_new_category")
         /\ UNCHANGED <<categories_db, medicines_db, clock, uuids, seedings>>
    ELSE /\ CanSeed
         /\ seedings' = Seeded(categories_db, seedings)
         /\ UNCHANGED medicines_db
         /\ LET cats == get_database(categories_db, seedings, Now)
                dump == CategoryCreateDump(p)
            IN  IF CategoryExists(cats, Get(dump["name"]))
                THEN /\ categories_db' = cats
                     /\ resp' = Response("create_new_category",
                                    HTTP_400_BAD_REQUEST, "ValueError:exists",
                                    0, <<>>)
                     /\ UNCHANGED <<clock, uuids>>
                ELSE /\ uuids < MaxUuid
                     /\ clock + d <= MaxDay
                     /\ LET category_id == Uuid(uuids + 1)
                            category_dict == create_category(dump, category_id,
                                                 Now, Now + d)
                        IN  /\ categories_db' = Put(cats, category_id, category_dict)
                            /\ resp' = Response("create_new_category",
                                           HTTP_201_CREATED, "ok", 0,
                                           <<Category(category_dict)>>)
                     /\ uuids' = uuids + 1
                     /\ clock' = clock + d

\* GET /api/categories
get_all_categories ==
    /\ CanSeed
    /\ SeedStep
    /\ LET cats == get_database(categories_db, seedings, Now)
           sorted_categories == SortCategories(cats, DOMAIN cats)
       IN  resp' = Response("get_all_categories", 200, "ok", 0,
                       [i \in 1..Len(sorted_categories) |->
                           Category(cats[sorted_categories[i]])])
    /\ UNCHANGED <<medicines_db, clock, uuids>>

\* GET /api/categories/{category_id}
get_category(category_id) ==
    /\ CanSeed
    /\ SeedStep
    /\ LET cats == get_database(categories_db, seedings, Now)
       IN  resp' = IF category_id \in DOMAIN cats
                   THEN Response("get_category", 200, "ok", 0,
                                 <<Category(cats[category_id])>>)
                   ELSE Response("get_category", HTTP_404_NOT_FOUND, "None",
                                 0, <<>>)
    /\ UNCHANGED <<medicines_db, clock, uuids>>

\* DELETE /api/categories/{category_id}: the ValueError of delete_category
\* falls to "except Exception"
delete_existing_category(category_id) ==
    /\ CanSeed
    /\ seedings' = Seeded(categories_db, seedings)
    /\ UNCHANGED <<medicines_db, clock, uuids>>
    /\ LET cats == get_database(categories_db, seedings, Now)
       IN  IF category_id \notin DOMAIN cats
           THEN /\ categories_db' = cats
                /\ resp' = Response("delete_existing_category",
                               HTTP_404_NOT_FOUND, "False", 0, <<>>)
           ELSE IF CategoryUnreadable(medicines_db)
           THEN /\ categories_db' = cats
                /\ resp' = Response("delete_existing_category",
                               HTTP_500_INTERNAL_SERVER_ERROR, "AttributeError",
                               0, <<>>)
           ELSE LET using == medicines_using_category(medicines_db,
                                 Get(cats[category_id]["name"]))
                IN  IF using # {}
                    THEN /\ categories_db' = cats
                         /\ resp' = Response("delete_existing_category",
                                        HTTP_500_INTERNAL_SERVER_ERROR,
                                        "ValueError:used", Cardinality(using),
                                        <<>>)
                    ELSE /\ categories_db' = Del(cats, category_id)
                         /\ resp' = Response("delete_existing_category",
                                        HTTP_204_NO_CONTENT, "True", 0, <<>>)

\* the system clock advances
Tick ==
    /\ clock < MaxDay
    /\ clock' = clock + 1
    /\ UNCHANGED <<categories_db, medicines_db, uuids, seedings, resp>>

----------------------------------------------------------------------------
(* The requests *)

EmptyDict == [x \in {} |-> x]

\* a request body with the six required medicine fields
MedicineBody(name, category, expiry_date, stock_quantity) ==
    [f \in RequiredFields |->
        CASE f = "name" -> name
          [] f = "category" -> category
          [] f = "dosage" -> Some(<<" ","x">>)
          [] f = "manufacturer" -> Some(<<"c","b">>)
          [] f = "expiry_date" -> expiry_date
          [] f = "stock_quantity" -> stock_quantity]

\* a request body that sets the one field f
OneField(f, v) == [x \in {f} |-> v]

Vitamins == <<"V","i","t","a","m","i","n","s">>
Antacids == <<" ","a","n","t","a","c","i","d","s">>

\* an id no record ever has
UnknownId == Uuid(0)

\* the category that heads the listing of get_categories
FirstListed(cats) ==
    IF DOMAIN cats = {} THEN {} ELSE {SortCategories(cats, DOMAIN cats)[1]}

\* the system after the startup event: get_database has seeded the categories
Init ==
    /\ clock = 0
    /\ categories_db = get_database(EmptyDict, 0, 0)
    /\ seedings = 1
    /\ medicines_db = EmptyDict
    /\ uuids = 0
    /\ resp = Response("startup_event", 0, "ok", 0, <<>>)
    /\ tasks = {}

StoreMedicineBodies ==
    {MedicineBody(Some(<<" ","a","b">>), c, Some(e), Some(q)) :
        c \in {Some(Antacids), None}, e \in 0..(MaxDay + 1), q \in {0, -1}}
    \cup {OneField("name", Some(<<"a","b">>))}

StoreUpdateBodies ==
    {EmptyDict}
    \cup {OneField("name", v) : v \in {Some(<<>>), Some(<<" ">>)}}
    \cup {OneField("category", v) : v \in {None, Some(<<" ">>), Some(Vitamins)}}
    \cup {OneField("expiry_date", Some(e)) : e \in 0..(MaxDay + 1)}
    \cup {OneField("stock_quantity", Some(-1)), OneField("price", Some(-1))}

StoreCategoryBodies ==
    {OneField("name", v) : v \in {None, Some(<<" ">>), Some(Vitamins), Some(Antacids)}}

Next ==
    \/ \E p \in StoreMedicineBodies, d \in 0..1 : create_new_medicine(p, d) /\ UNCHANGED tasks
    \/ \E id \in DOMAIN medicines_db \cup {UnknownId}, p \in StoreUpdateBodies :
          update_existing_medicine(id, p) /\ UNCHANGED tasks
    \/ \E id \in DOMAIN medicines_db \cup {UnknownId} : delete_existing_medicine(id) /\ UNCHANGED tasks
    \/ \E p \in StoreCategoryBodies, d \in 0..1 : create_new_category(p, d) /\ UNCHANGED tasks
    \/ \E id \in FirstListed(categories_db) \cup {UnknownId} :
          delete_existing_category(id) /\ UNCHANGED tasks
    \/ get_all_categories /\ UNCHANGED tasks
    \/ Tick /\ UNCHANGED tasks

Spec == Init /\ [][Next]_vars

StampMedicineBodies ==
    {MedicineBody(Some(<<" ","a","b">>), Some(Antacids), Some(MaxDay + 1), Some(0))}

StampUpdateBodies == {EmptyDict, OneField("stock_quantity", Some(1))}

StampCategoryBodies == {OneField("name", Some(Antacids))}

NextStamps ==
    \/ \E p \in StampMedicineBodies, d \in 0..1 : create_new_medicine(p, d) /\ UNCHANGED tasks
    \/ \E id \in DOMAIN medicines_db, p \in StampUpdateBodies :
          update_existing_medicine(id, p) /\ UNCHANGED tasks
    \/ \E id \in DOMAIN medicines_db : delete_existing_medicine(id) /\ UNCHANGED tasks
    \/ \E p \in StampCategoryBodies, d \in 0..1 : create_new_category(p, d) /\ UNCHANGED tasks
    \/ \E id \in FirstListed(categories_db) : delete_existing_category(id) /\ UNCHANGED tasks
    \/ Tick /\ UNCHANGED tasks

SpecStamps == Init /\ [][NextStamps]_vars

QueryMedicineBodies ==
    {MedicineBody(Some(n), Some(c), Some(e), Some(0)) :
        n \in {<<" ","a","b">>, <<"B","A">>}, c \in {Vitamins, Antacids},
        e \in 0..(MaxDay + 1)}

QuerySkips == {-1, 0, 1, 2}
QueryLimits == {0, 1, 2}
QueryCategories == {None, Some(<<>>), Some(<<"V","I","T","A","M","I","N","S">>)}
QuerySearches == {None, Some(<<"B">>), Some(<<"c">>)}
QueryExpired == {None, Some(TRUE), Some(FALSE)}

NextQuery ==
    \/ \E p \in QueryMedicineBodies : create_new_medicine(p, 0) /\ UNCHANGED tasks
    \/ \E id \in DOMAIN medicines_db \cup {UnknownId} : delete_existing_medicine(id) /\ UNCHANGED tasks
    \/ \E skip \in QuerySkips, limit \in QueryLimits, category \in QueryCategories,
          search \in QuerySearches, expired \in QueryExpired :
          get_all_medicines(skip, limit, category, search, expired) /\ UNCHANGED tasks
    \/ \E id \in DOMAIN medicines_db \cup {UnknownId} : get_medicine(id) /\ UNCHANGED tasks
    \/ \E id \in DOMAIN categories_db \cup {UnknownId} : get_category(id) /\ UNCHANGED tasks
    \/ Tick /\ UNCHANGED tasks

SpecQuery == Init /\ [][NextQuery]_vars

----------------------------------------------------------------------------
(* The request coroutines on the event loop *)

\* The event loop runs one coroutine at a time and may switch to another
\* one only where the running one awaits. Every store function awaits
\* get_database() first; the model lets the loop switch there (get_database
\* itself never suspends, so the real loop switches at most there). tasks
\* holds the suspended coroutines: the store function, its arguments and the
\* await it is suspended at.
Task(op, pc, id, p) == [op |-> op, pc |-> pc, id |-> id, p |-> p]

\* delete_category with one more await, between its check and its del
delete_category_awaits_after_check == {"get_database", "check"}

\* delete_category: the places where it awaits; the check of the medicines
\* and "del categories_db[category_id]" follow the one await with no other
\* between them
delete_category_awaits == {"get_database"}

\* a request arrives: its coroutine runs up to "await get_database()" and
\* through it
Begin(op, id, p) ==
    /\ Cardinality(tasks) < MaxTasks
    /\ CanSeed
    /\ SeedStep
    /\ tasks' = tasks \cup {Task(op, "get_database", id, p)}
    /\ UNCHANGED <<medicines_db, clock, uuids, resp>>

\* POST /api/medicines resumed: create_medicine after its await
Resume_create_medicine(t) ==
    /\ t.op = "create_medicine"
    /\ uuids < MaxUuid
    /\ LET medicine_id == Uuid(uuids + 1)
           medicine_dict == create_medicine(MedicineCreateDump(t.p),
                                medicine_id, Now, Now)
       IN  /\ medicines_db' = Put(medicines_db, medicine_id, medicine_dict)
           /\ resp' = Response("create_new_medicine", HTTP_201_CREATED,
                               "ok", 0, <<Medicine(medicine_dict)>>)
    /\ uuids' = uuids + 1
    /\ tasks' = tasks \ {t}
    /\ UNCHANGED <<categories_db, clock, seedings>>

\* PUT /api/medicines/{medicine_id} resumed: update_medicine after its await
\* (with a field to update)
Resume_update_medicine(t) ==
    /\ t.op = "update_medicine"
    /\ tasks' = tasks \ {t}
    /\ UNCHANGED <<categories_db, clock, uuids, seedings>>
    /\ IF t.id \notin DOMAIN medicines_db
       THEN /\ resp' = Response("update_existing_medicine",
                           HTTP_404_NOT_FOUND, "None", 0, <<>>)
            /\ UNCHANGED medicines_db
       ELSE LET current_data == update_medicine(medicines_db[t.id],
                                    MedicineUpdateDump(t.p), Now)
            IN  /\ medicines_db' = [medicines_db EXCEPT ![t.id] = current_data]
                /\ resp' =
                      IF MedicineBaseValid(current_data, Today)
                      THEN Response("update_existing_medicine", 200, "ok",
                                    0, <<Medicine(current_data)>>)
                      ELSE Response("update_existing_medicine",
                               HTTP_500_INTERNAL_SERVER_ERROR,
                               "ValidationError", 0, <<>>)

\* DELETE /api/categories/{category_id} resumed: delete_category after its
\* await of get_database, or after an await that follows its check
Resume_delete_category(t) ==
    /\ t.op = "delete_category"
    /\ UNCHANGED <<medicines_db, clock, uuids, seedings>>
    /\ IF t.pc = "check"
       THEN /\ tasks' = tasks \ {t}
            /\ IF t.id \in DOMAIN categories_db
               THEN /\ categories_db' = Del(categories_db, t.id)
                    /\ resp' = Response("delete_existing_category",
                                   HTTP_204_NO_CONTENT, "True", 0, <<>>)
               ELSE /\ UNCHANGED categories_db
                    /\ resp' = Response("delete_existing_category",
                                   HTTP_500_INTERNAL_SERVER_ERROR, "KeyError",
                                   0, <<>>)
       ELSE IF t.id \notin DOMAIN categories_db
       THEN /\ tasks' = tasks \ {t}
            /\ UNCHANGED categories_db
            /\ resp' = Response("delete_existing_category",
                           HTTP_404_NOT_FOUND, "False", 0, <<>>)
       ELSE IF CategoryUnreadable(medicines_db)
       THEN /\ tasks' = tasks \ {t}
            /\ UNCHANGED categories_db
            /\ resp' = Response("delete_existing_category",
                           HTTP_500_INTERNAL_SERVER_ERROR, "AttributeError",
                           0, <<>>)
       ELSE LET using == medicines_using_category(medicines_db,
                             Get(categories_db[t.id]["name"]))
            IN  IF using # {}
                THEN /\ tasks' = tasks \ {t}
                     /\ UNCHANGED categories_db
                     /\ resp' = Response("delete_existing_category",
                                    HTTP_500_INTERNAL_SERVER_ERROR,
                                    "ValueError:used", Cardinality(using), <<>>)
                ELSE IF "check" \in delete_category_awaits
                THEN /\ tasks' = (tasks \ {t})
                                    \cup {Task(t.op, "check", t.id, t.p)}
                     /\ UNCHANGED <<categories_db, resp>>
                ELSE /\ tasks' = tasks \ {t}
                     /\ categories_db' = Del(categories_db, t.id)
                     /\ resp' = Response("delete_existing_category",
                                    HTTP_204_NO_CONTENT, "True", 0, <<>>)

LoopMedicineBodies ==
    {MedicineBody(Some(<<" ","a","b">>), Some(Antacids), Some(MaxDay + 1), Some(0))}

\* updates that move a medicine out of a category or into it
LoopUpdateBodies ==
    {OneField("category", v) : v \in {Some(Vitamins), Some(Antacids)}}

NextLoop ==
    \/ \E p \in LoopMedicineBodies : Begin("create_medicine", UnknownId, p)
    \/ \E id \in DOMAIN medicines_db, p \in LoopUpdateBodies :
          Begin("update_medicine", id, p)
    \/ \E id \in FirstListed(categories_db) :
          Begin("delete_category", id, EmptyDict)
    \/ \E t \in tasks : Resume_create_medicine(t)
    \/ \E t \in tasks : Resume_update_medicine(t)
    \/ \E t \in tasks : Resume_delete_category(t)

SpecLoop == Init /\ [][NextLoop]_vars

----------------------------------------------------------------------------
(* The claims *)

\* the ids of the records of a response body
BodyIds(body) == {body[i]["_id"] : i \in 1..Len(body)}

\* the stored medicines whose category is name, ignoring case
Referencing(name) ==
    {m \in DOMAIN medicines_db :
        /\ medicines_db[m]["category"] # None
        /\ Lower(Get(medicines_db[m]["category"])) = Lower(name)}

\* C1: deleteCategory on an existing category is rejected with a referential
\* conflict that carries the number of stored medicines whose category is the
\* category's name (ignoring case) when that number is at least 1, and the
\* category stays stored; when no medicine references it, the call removes
\* the category and returns true.
C1_DeleteCategoryReferential ==
    [][\A id \in DOMAIN categories_db :
          delete_existing_category(id) =>
              LET n == Cardinality(Referencing(Get(categories_db[id]["name"])))
              IN  IF n >= 1
                  THEN /\ resp'.outcome = "ValueError:used"
                       /\ resp'.count = n
                       /\ categories_db' = categories_db
                  ELSE /\ resp'.outcome = "True"
                       /\ id \notin DOMAIN categories_db']_vars

\* creation rejects the value o of field f
CreationRejects(f, o) ==
    IF o = None
    THEN f \in RequiredFields
    ELSE ~ /\ FieldConstraint(f, Get(o))
           /\ TextValidator(f, Get(o))
           /\ (f = "expiry_date" => validate_expiry_date(Get(o), Today))

\* C2: a partial update of an existing medicine that supplies a field whose
\* value creation would reject is rejected (a 4xx response) and the stored
\* records are left as they were.
C2_UpdateRejectsLikeCreate ==
    [][\A id \in DOMAIN medicines_db, p \in StoreUpdateBodies :
          (/\ update_existing_medicine(id, p)
           /\ \E f \in DOMAIN p : CreationRejects(f, p[f]))
          => /\ resp'.status \in 400..499
             /\ medicines_db' = medicines_db]_vars

\* C3: a not-found outcome gives a 404 response; every validation,
\* duplicate-category and referential-conflict rejection gives a 4xx
\* response, never a 5xx.
C3_StatusClasses ==
    /\ resp.outcome \in {"None", "False"} => resp.status = HTTP_404_NOT_FOUND
    /\ resp.outcome \in {"RequestValidationError", "ExpiryNotFuture",
                         "ValueError:exists", "ValueError:used"}
          => resp.status \in 400..499

\* C5: updateMedicine on an existing id with validated fields: with an empty
\* field set it returns the current record and changes nothing; with a
\* non-empty one it changes only the supplied fields and updated_at, which
\* becomes strictly greater.
C5_UpdateFrame ==
    [][\A id \in DOMAIN medicines_db, p \in StoreUpdateBodies :
          (/\ update_existing_medicine(id, p)
           /\ resp'.status \notin 400..499)
          => IF DOMAIN p = {}
             THEN /\ resp'.body = <<Medicine(medicines_db[id])>>
                  /\ medicines_db' = medicines_db
             ELSE /\ DOMAIN medicines_db' = DOMAIN medicines_db
                  /\ \A m \in DOMAIN medicines_db \ {id} :
                        medicines_db'[m] = medicines_db[m]
                  /\ \A f \in DOMAIN medicines_db[id] \ (DOMAIN p \cup {"updated_at"}) :
                        medicines_db'[id][f] = medicines_db[id][f]
                  /\ \A f \in DOMAIN p :
                        medicines_db'[id][f] = MedicineUpdateDump(p)[f]
                  /\ medicines_db'[id]["updated_at"] > medicines_db[id]["updated_at"]
       ]_vars

\* no two stored categories have the same name, ignoring case
NoDuplicateNames ==
    \A a, b \in DOMAIN categories_db :
        Lower(Get(categories_db[a]["name"])) = Lower(Get(categories_db[b]["name"]))
            => a = b

\* C6: no two stored categories have names equal ignoring case; createCategory
\* is rejected as a duplicate when a stored category has the normalized new
\* name ignoring case, and a rejected createCategory leaves the categories
\* unchanged.
C6_UniqueCategoryNames ==
    /\ []NoDuplicateNames
    /\ [][\A p \in StoreCategoryBodies, d \in 0..1 :
             create_new_category(p, d) =>
                 /\ (/\ CategoryBaseValid(p)
                     /\ \E c \in DOMAIN categories_db :
                           Lower(Get(categories_db[c]["name"]))
                               = Lower(Strip(Get(p["name"]))))
                       => resp'.outcome = "ValueError:exists"
                 /\ resp'.status # HTTP_201_CREATED
                       => categories_db' = categories_db]_vars

\* the names of the stored categories
CategoryNames(cats) == {Get(cats[c]["name"]) : c \in DOMAIN cats}

\* C7: the seed categories are inserted once: a category name appears in the
\* store only by a successful createCategory of that name, and listCategories
\* of a store without categories is empty.
C7_SeededOnce ==
    [][/\ \A name \in CategoryNames(categories_db') \ CategoryNames(categories_db) :
             /\ resp'.op = "create_new_category"
             /\ resp'.status = HTTP_201_CREATED
             /\ Get(resp'.body[1]["name"]) = name
       /\ (get_all_categories /\ DOMAIN categories_db = {}) => resp'.body = <<>>
      ]_vars

\* C4: with every stored record in the window, listMedicines(expired=x)
\* returns exactly the records for which (expiry_date <= today) equals x: an
\* expired record is returned for expired=true and left out for expired=false.
C4_ExpiredFilter ==
    [][\A limit \in QueryLimits, expired \in {Some(TRUE), Some(FALSE)} :
          (/\ get_all_medicines(0, limit, None, None, expired)
           /\ limit >= Cardinality(DOMAIN medicines_db)
           /\ limit >= 1)
          => /\ resp'.status = 200
             /\ BodyIds(resp'.body) =
                   {m \in DOMAIN medicines_db :
                       (Get(medicines_db[m]["expiry_date"]) <= Today) = Get(expired)}
      ]_vars

\* the names of a sequence of records ascend
AscendingByName(items) ==
    \A i, j \in 1..Len(items) :
        i < j => ~StrLess(Get(items[j]["name"]), Get(items[i]["name"]))

\* C8: for skip >= 0 and limit >= 1 listMedicines never fails and returns
\* the filtered records in ascending order of name, windowed: with K records
\* in the unskipped, unlimited result it returns min(limit, max(0, K - skip))
\* records, the ones that follow the first skip records, in the same order.
C8_SortedWindow ==
    [][\A skip \in QuerySkips, limit \in QueryLimits, category \in QueryCategories,
          search \in QuerySearches, expired \in QueryExpired :
          (/\ skip >= 0
           /\ limit >= 1
           /\ get_all_medicines(skip, limit, category, search, expired))
          => LET all == get_medicines(medicines_db, 0,
                            Cardinality(DOMAIN medicines_db) + 1, category,
                            search, expired, Today)
                 K == Len(all.items)
                 rest == IF K - skip > 0 THEN K - skip ELSE 0
             IN  /\ resp'.status = 200
                 /\ all.raised = "no"
                 /\ AscendingByName(all.items)
                 /\ Len(resp'.body) = (IF limit < rest THEN limit ELSE rest)
                 /\ \A i \in 1..Len(resp'.body) : resp'.body[i] = all.items[skip + i]
      ]_vars

\* C9: with every stored record in the window, listMedicines returns exactly
\* the records that satisfy every supplied filter: a supplied category (the
\* empty string too) equals the record's category ignoring case, a supplied
\* search text is contained in the lower-cased name or manufacturer, a
\* supplied expired flag equals (expiry_date <= today).
C9_FiltersConjoin ==
    [][\A limit \in QueryLimits, category \in QueryCategories,
          search \in QuerySearches, expired \in QueryExpired :
          (/\ get_all_medicines(0, limit, category, search, expired)
           /\ limit >= Cardinality(DOMAIN medicines_db)
           /\ limit >= 1)
          => /\ resp'.status = 200
             /\ BodyIds(resp'.body) =
                   {m \in DOMAIN medicines_db :
                       /\ category # None =>
                             Lower(Get(medicines_db[m]["category"]))
                                 = Lower(Get(category))
                       /\ search # None =>
                             \/ Contains(Lower(Get(search)),
                                         Lower(Get(medicines_db[m]["name"])))
                             \/ Contains(Lower(Get(search)),
                                         Lower(Get(medicines_db[m]["manufacturer"])))
                       /\ expired # None =>
                             (Get(medicines_db[m]["expiry_date"]) <= Today)
                                 = Get(expired)}
      ]_vars

\* every stored record has updated_at >= created_at
StampsOrdered ==
    /\ \A m \in DOMAIN medicines_db :
          medicines_db[m]["updated_at"] >= medicines_db[m]["created_at"]
    /\ \A c \in DOMAIN categories_db :
          categories_db[c]["updated_at"] >= categories_db[c]["created_at"]

\* C10: every stored medicine and category record (the seed categories too)
\* has updated_at >= created_at, and no operation changes the id or the
\* created_at of a record that stays stored. (The system clock never runs
\* backwards.)
C10_StampsAndIdentity ==
    /\ []StampsOrdered
    /\ [][/\ \A m \in DOMAIN medicines_db \cap DOMAIN medicines_db' :
                /\ medicines_db'[m]["_id"] = medicines_db[m]["_id"]
                /\ medicines_db'[m]["_id"] = m
                /\ medicines_db'[m]["created_at"] = medicines_db[m]["created_at"]
          /\ \A c \in DOMAIN categories_db \cap DOMAIN categories_db' :
                /\ categories_db'[c]["_id"] = categories_db[c]["_id"]
                /\ categories_db'[c]["_id"] = c
                /\ categories_db'[c]["created_at"] = categories_db[c]["created_at"]
         ]_vars

\* an update has answered with a record stamped later than it was created,
\* in a store whose categories have been seeded again
C10_Witness ==
    /\ resp.op = "update_existing_medicine"
    /\ resp.status = 200
    /\ \E m \in DOMAIN medicines_db :
          /\ medicines_db[m]["updated_at"] > medicines_db[m]["created_at"]
          /\ medicines_db[m]["stock_quantity"] = Some(1)
    /\ seedings > 1
    /\ \E c \in DOMAIN categories_db : categories_db[c]["_id"] = SeedId(seedings, 1)

\* C11: a medicine stored by createMedicine stays readable until it is deleted,
\* also once the date has reached its expiry_date: getMedicine(id) returns the
\* record, and listMedicines without filters (every stored record in the
\* window) returns a result that contains it.
C11_StaysReadable ==
    [][/\ \A id \in DOMAIN medicines_db :
             get_medicine(id) =>
                 /\ resp'.status = 200
                 /\ resp'.body = <<Medicine(medicines_db[id])>>
       /\ \A limit \in QueryLimits :
             (/\ get_all_medicines(0, limit, None, None, None)
              /\ limit >= Cardinality(DOMAIN medicines_db)
              /\ limit >= 1)
             => /\ resp'.status = 200
                /\ DOMAIN medicines_db \subseteq BodyIds(resp'.body)
      ]_vars

\* no coroutine of deleteCategory is suspended between its check and its removal
CheckAndRemovalAtomic ==
    \A t \in tasks : t.op = "delete_category" => t.pc = "get_database"

\* C12: with the requests interleaved as coroutines, deleteCategory's check
\* and its removal are one atomic step (no coroutine is suspended between
\* them), and whenever a category is removed no stored medicine references
\* it at the moment of removal and deleteCategory returns true.
C12_DeleteCategoryAtomic ==
    /\ []CheckAndRemovalAtomic
    /\ [][\A c \in DOMAIN categories_db \ DOMAIN categories_db' :
             /\ Referencing(Get(categories_db[c]["name"])) = {}
             /\ medicines_db' = medicines_db
             /\ resp'.op = "delete_existing_category"
             /\ resp'.outcome = "True"]_vars

\* deleteCategory has removed the one category that is gone, after an update
\* moved the medicine that referenced it to another category, while a
\* createMedicine naming the removed category is suspended at its await
C12_Witness ==
    /\ resp.op = "delete_existing_category"
    /\ resp.outcome = "True"
    /\ seedings = 1
    /\ Cardinality(DOMAIN categories_db) = Len(sample_categories) - 1
    /\ \E m \in DOMAIN medicines_db :
          /\ medicines_db[m]["updated_at"] >= medicines_db[m]["created_at"]
          /\ Get(medicines_db[m]["category"]) = Lower(Vitamins)
    /\ \E t \in tasks :
          /\ t.op = "create_medicine"
          /\ Referencing(Get(MedicineCreateDump(t.p)["category"])) = {}
          /\ ~CategoryExists(categories_db,
                             Get(MedicineCreateDump(t.p)["category"]))

====
